---- MODULE Spec2Model ----
(***************************************************************************)
(* Model of the commander/soldier missile game of src/game.py: the pure    *)
(* geometry, the evasion search Soldier.take_shelter, the commander's      *)
(* round loop and the hand-off of the commander role to a soldier.         *)
(***************************************************************************)
EXTENDS Integers, Sequences, FiniteSets, TLC

\* ------------------------------------------------------------------------
\* Program constants (src/game.py:20-22)
MAX_SPEED == 4
MIN_BOARD_SIZE == 8
MIN_SOLDIERS == 3

\* ------------------------------------------------------------------------
\* Bounds of the model
\* largest configured board size N (config.toml "N"); the smallest is MIN_BOARD_SIZE
MaxBoardSize == 8
\* config.toml "N", the board size of the game
BoardSize == 8
\* number of soldier addresses in config.toml, also its "M" (num_soldiers)
NumSoldiers == 2
\* config.toml "t", the seconds between two missiles
TimeToMissile == 1
\* config.toml "T", the game time
GameTime == 2
\* number of soldier processes the environment may take down (UnreachableSpec)
MaxFailures == 1

\* ------------------------------------------------------------------------
\* Helpers for Python's built-in max, min and abs
Max(a, b) == IF a >= b THEN a ELSE b
Min(a, b) == IF a <= b THEN a ELSE b
Abs(a) == IF a < 0 THEN 0 - a ELSE a

\* the board sizes the commander accepts and the model explores
BoardSizes == MIN_BOARD_SIZE..MaxBoardSize

\* random.randrange(0, board_size): every coordinate of the board
Coords(board_size) == 0..(board_size - 1)
Cells(board_size) == Coords(board_size) \X Coords(board_size)

\* random.randint(1, 4) in spawn_missile
MissileTypes == 1..4

\* random.randint(0, MAX_SPEED) in Soldier.__init__
Speeds == 0..MAX_SPEED

\* A game draws fewer values than the ranges above hold. Its units start in
\* one of two opposite corners, its missiles are aimed at the first of them
\* (so a unit that started in the other corner is out of every blast), a
\* missile is of type 1 or 3 and the speeds of its units are 0 (cannot move)
\* or 2 (leaves the blast of a missile of type 1 from its centre, not that of
\* a missile of type 3).
StartCells(board_size) == {<<0, 0>>, <<board_size - 1, board_size - 1>>}
MissileCells(board_size) == {<<0, 0>>}
GameMissileTypes == {1, 3}
GameSpeeds == {0, 2}

\* the processes: the initial commander is unit 0, the soldier listening on
\* the i-th address of config.toml is unit i
Soldiers == 1..NumSoldiers
Units == 0..NumSoldiers

\* SoldierMetadata.position before the soldier answered (line 224)
NoPosition == <<-1, -1>>

\* ------------------------------------------------------------------------
\* is_position_in_blast_radius (src/game.py:58-84)

\* lines 79-83 with the upper ends of the radius one cell too far
BlastRadiusUpperOffByOne(position, missile_type, missile_position, board_size) ==
    /\ Max(0, missile_position[1] - missile_type + 1) <= position[1]
    /\ position[1] <= Min(missile_position[1] + missile_type, board_size - 1)
    /\ Max(0, missile_position[2] - missile_type + 1) <= position[2]
    /\ position[2] <= Min(missile_position[2] + missile_type, board_size - 1)

is_position_in_blast_radius(position, missile_type, missile_position, board_size) ==
    /\ Max(0, missile_position[1] - missile_type + 1) <= position[1]
    /\ position[1] <= Min(missile_position[1] + missile_type - 1, board_size - 1)
    /\ Max(0, missile_position[2] - missile_type + 1) <= position[2]
    /\ position[2] <= Min(missile_position[2] + missile_type - 1, board_size - 1)

\* ------------------------------------------------------------------------
\* Soldier.take_shelter (src/game.py:118-183)

\* the eight directions of line 131
directions ==
    {<<-1, 0>>, <<-1, 1>>, <<0, 1>>, <<1, 1>>, <<1, 0>>, <<1, -1>>, <<0, -1>>, <<-1, -1>>}

NoDirection == <<0, 0>>

is_diagonal(direction) == direction[1] # 0 /\ direction[2] # 0

\* lines 157-163 with the clamp at 0 forgotten
AxisMoveNotClampedAtZero(position, speed, direction, board_size) ==
    <<Min(position[1] + speed * direction[1], board_size - 1),
      Min(position[2] + speed * direction[2], board_size - 1)>>

\* lines 157-163: the full-speed step, each axis clamped into the board
AxisMove(position, speed, direction, board_size) ==
    <<Max(0, Min(position[1] + speed * direction[1], board_size - 1)),
      Max(0, Min(position[2] + speed * direction[2], board_size - 1))>>

\* lines 165-171: the while loop of a diagonal direction, entered with
\* eff_speed and the new_position computed so far; it yields the eff_speed and
\* new_position the loop ends with
RECURSIVE DiagonalLoop(_, _, _, _, _)
DiagonalLoop(position, eff_speed, new_position, direction, board_size) ==
    IF eff_speed > 0
    THEN LET np == <<position[1] + eff_speed * direction[1],
                     position[2] + eff_speed * direction[2]>>
         IN  IF /\ 0 <= np[1] /\ np[1] < board_size
                /\ 0 <= np[2] /\ np[2] < board_size
             THEN [eff_speed |-> eff_speed, new_position |-> np]
             ELSE DiagonalLoop(position, eff_speed - 1, np, direction, board_size)
    ELSE [eff_speed |-> eff_speed, new_position |-> new_position]

\* lines 146-171 with a diagonal direction clamped like an axis-aligned one
\* (the move the comment of lines 151-155 rules out)
AttemptClamped(position, speed, direction, board_size) ==
    [eff_speed |-> speed,
     new_position |-> AxisMove(position, speed, direction, board_size)]

\* lines 146-171: one iteration of the for loop up to the test of eff_speed
Attempt(position, speed, direction, board_size) ==
    IF ~is_diagonal(direction)
    THEN [eff_speed |-> speed,
          new_position |-> AxisMove(position, speed, direction, board_size)]
    ELSE DiagonalLoop(position, speed, position, direction, board_size)

\* lines 173-176 without the skip of a direction whose eff_speed fell to 0
AcceptedNoSkip(position, speed, direction, missile_type, missile_position, board_size) ==
    LET a == Attempt(position, speed, direction, board_size)
    IN  ~is_position_in_blast_radius(a.new_position, missile_type,
                                     missile_position, board_size)

\* lines 173-176: the direction is not skipped and its new_position is safe
Accepted(position, speed, direction, missile_type, missile_position, board_size) ==
    LET a == Attempt(position, speed, direction, board_size)
    IN  /\ a.eff_speed # 0
        /\ ~is_position_in_blast_radius(a.new_position, missile_type,
                                        missile_position, board_size)

\* lines 136-139 without the assignment of was_hit
SpeedZeroForgotten(position, was_hit) ==
    [position |-> position, was_hit |-> was_hit, direction |-> NoDirection]

\* lines 136-139: a soldier that cannot move is hit where it stands
SpeedZero(position, was_hit) ==
    [position |-> position, was_hit |-> TRUE, direction |-> NoDirection]

\* take_shelter: the set of outcomes [position, was_hit, direction taken].
\* random.sample (line 145) returns any permutation of the directions and the
\* loop stops at the first accepted direction (line 180), so every accepted
\* direction is the one taken under some permutation, and no other is.
take_shelter(position, speed, was_hit, board_size, missile_type, missile_position) ==
    IF ~is_position_in_blast_radius(position, missile_type, missile_position, board_size)
    THEN {[position |-> position, was_hit |-> was_hit, direction |-> NoDirection]}
    ELSE IF speed = 0
    THEN {SpeedZero(position, was_hit)}
    ELSE LET ok == {d \in directions :
                      Accepted(position, speed, d, missile_type,
                               missile_position, board_size)}
         IN  IF ok = {}
             THEN {[position |-> position, was_hit |-> TRUE, direction |-> NoDirection]}
             ELSE {[position |-> Attempt(position, speed, d, board_size).new_position,
                    was_hit |-> FALSE,
                    direction |-> d] : d \in ok}

\* ------------------------------------------------------------------------
\* State of one call of take_shelter on a unit
VARIABLES
    sh_pc,      \* "ready" before the call, "done" after it
    sh_unit,    \* the unit: board_size, position, speed, was_hit
    sh_missile, \* the missile: type, position
    sh_start,   \* the unit's position before the call
    sh_dir      \* the direction take_shelter accepted, NoDirection if none

shelter_vars == <<sh_pc, sh_unit, sh_missile, sh_start, sh_dir>>

\* ------------------------------------------------------------------------
\* State of a game
VARIABLES
    soldier,    \* per soldier process: the Soldier object s (line 481)
    server,     \* per soldier process: "serving", "stopped" (server.stop), "down"
    main_pc,    \* per soldier process: where its main thread is (lines 493-504)
    handler_pc, \* per soldier process: where its NewCommander handler is
    request,    \* per soldier process: the NewCommanderRequest it received
    cmd,        \* per unit: its Commander object (c of line 476, War.commander)
    cpc,        \* per unit: where the thread running Commander code is
    ci,         \* per unit: index of the soldier the running for loop is at
    to_delete,  \* per unit: to_delete of send_round_status_message
    calls,      \* per soldier process: how many calls of each kind it received
    promoted_to,\* per unit: the addresses it sent NewCommander to, in order
    missiles,   \* number of missiles spawned so far
    failures,   \* number of soldier processes taken down so far
    conf        \* config.toml as the commander process read it (line 461)

game_vars == <<soldier, server, main_pc, handler_pc, request, cmd, cpc, ci,
               to_delete, calls, promoted_to, missiles, failures, conf>>

vars == <<sh_pc, sh_unit, sh_missile, sh_start, sh_dir, soldier, server, main_pc,
          handler_pc, request, cmd, cpc, ci, to_delete, calls, promoted_to,
          missiles, failures, conf>>

\* ------------------------------------------------------------------------
\* Objects

\* self.alive_soldiers of _read_soldier_inventory (src/game.py:217-227): one
\* entry per address of config.toml, sid i + 1 for the i-th (0-based) address
Inventory ==
    [i \in 1..NumSoldiers |-> [sid |-> i, addr |-> i, position |-> NoPosition]]

\* Soldier.__init__ (src/game.py:109-114); sid, board_size and position are
\* not attributes yet (sid 0 stands for that), StartupStatus sets them
NewSoldier(speed) ==
    [sid |-> 0, board_size |-> 0, position |-> NoPosition, speed |-> speed,
     was_hit |-> FALSE, is_alive |-> TRUE, is_promoted |-> FALSE,
     game_over |-> FALSE]

\* no Commander object: War.commander is not an attribute yet
NoCommander ==
    [exists |-> FALSE, board_size |-> 0, num_soldiers |-> 0, time_to_missile |-> 0,
     game_time |-> 0, cur_time |-> 0, speed |-> 0, was_hit |-> FALSE,
     is_alive |-> FALSE, game_over |-> FALSE,
     has_position |-> FALSE, position |-> NoPosition,
     has_roster |-> FALSE, alive_soldiers |-> <<>>,
     missile_type |-> 0, missile_pos |-> NoPosition]

\* Commander.__init__ (src/game.py:197-215): Soldier.__init__ draws a speed and
\* resets the flags; position is no attribute yet; alive_soldiers is one only
\* for the initial commander, which reads the inventory
Commander(board_size, num_soldiers, time_to_missile, game_time, cur_time, is_initial_commander, speed) ==
    [exists |-> TRUE, board_size |-> board_size, num_soldiers |-> num_soldiers,
     time_to_missile |-> time_to_missile, game_time |-> game_time,
     cur_time |-> cur_time, speed |-> speed, was_hit |-> FALSE,
     is_alive |-> TRUE, game_over |-> FALSE,
     has_position |-> FALSE, position |-> NoPosition,
     has_roster |-> is_initial_commander,
     alive_soldiers |-> IF is_initial_commander THEN Inventory ELSE <<>>,
     missile_type |-> 0, missile_pos |-> NoPosition]

NoRequest ==
    [board_size |-> 0, num_soldiers |-> 0, time_to_missile |-> 0, game_time |-> 0,
     cur_time |-> 0, alive_soldiers |-> <<>>]

NoCalls ==
    [StartupStatus |-> 0, MissileApproaching |-> 0, RoundStatus |-> 0,
     NewCommander |-> 0, GameOver |-> 0]

\* config.toml: "N", "M", "t" and "T"; its "soldiers" are the NumSoldiers
\* addresses of Inventory
NoConf == [N |-> 0, M |-> 0, t |-> 0, T |-> 0]

\* the sids of a roster
Sids(alive_soldiers) == {alive_soldiers[i].sid : i \in 1..Len(alive_soldiers)}

\* ------------------------------------------------------------------------
\* Initial states

\* no process runs
GameOff ==
    /\ soldier = [m \in Soldiers |-> NewSoldier(0)]
    /\ server = [m \in Soldiers |-> "down"]
    /\ main_pc = [m \in Soldiers |-> "exit"]
    /\ handler_pc = [m \in Soldiers |-> "idle"]
    /\ request = [m \in Soldiers |-> NoRequest]
    /\ cmd = [u \in Units |-> NoCommander]
    /\ cpc = [u \in Units |-> "idle"]
    /\ ci = [u \in Units |-> 0]
    /\ to_delete = [u \in Units |-> {}]
    /\ calls = [m \in Soldiers |-> NoCalls]
    /\ promoted_to = [u \in Units |-> <<>>]
    /\ missiles = 0
    /\ failures = 0
    /\ conf = NoConf

ShelterOff ==
    /\ sh_pc = "off"
    /\ sh_unit = [board_size |-> 0, position |-> NoPosition, speed |-> 0,
                  was_hit |-> FALSE]
    /\ sh_missile = [type |-> 0, position |-> NoPosition]
    /\ sh_start = NoPosition
    /\ sh_dir = NoDirection

\* Every soldier process runs lines 481-491 and serves; the commander process
\* has passed the checks of lines 464-474 and built c (line 476).
Init ==
    /\ ShelterOff
    /\ soldier \in [Soldiers -> {NewSoldier(v) : v \in GameSpeeds}]
    /\ server = [m \in Soldiers |-> "serving"]
    /\ main_pc = [m \in Soldiers |-> "serve"]
    /\ handler_pc = [m \in Soldiers |-> "idle"]
    /\ request = [m \in Soldiers |-> NoRequest]
    /\ \E v \in GameSpeeds :
         cmd = [u \in Units |->
                  IF u = 0
                  THEN Commander(BoardSize, NumSoldiers, TimeToMissile, GameTime, 0, TRUE, v)
                  ELSE NoCommander]
    /\ cpc = [u \in Units |-> IF u = 0 THEN "startup" ELSE "idle"]
    /\ ci = [u \in Units |-> IF u = 0 THEN 1 ELSE 0]
    /\ to_delete = [u \in Units |-> {}]
    /\ calls = [m \in Soldiers |-> NoCalls]
    /\ promoted_to = [u \in Units |-> <<>>]
    /\ missiles = 0
    /\ failures = 0
    /\ conf = [N |-> BoardSize, M |-> NumSoldiers, t |-> TimeToMissile, T |-> GameTime]

\* ------------------------------------------------------------------------
\* Calls

\* the channel to the address reaches a serving process
Reachable(addr) == server[addr] = "serving"

\* an exception nothing catches ends the thread that runs Commander code
Raise(u) == cpc' = [cpc EXCEPT ![u] = "crashed"]

Received(addr, rpc) == calls' = [calls EXCEPT ![addr][rpc] = @ + 1]

\* a for loop over self.alive_soldiers that ends before its last entry
AdvanceSkipsLast(u, after) ==
    IF ci[u] + 1 < Len(cmd[u].alive_soldiers)
    THEN /\ ci' = [ci EXCEPT ![u] = @ + 1]
         /\ cpc' = cpc
    ELSE /\ ci' = [ci EXCEPT ![u] = 0]
         /\ cpc' = [cpc EXCEPT ![u] = after]

\* the for loops over self.alive_soldiers: after the entry at ci[u] either
\* the next entry or the statement after the loop
Advance(u, after) ==
    IF ci[u] < Len(cmd[u].alive_soldiers)
    THEN /\ ci' = [ci EXCEPT ![u] = @ + 1]
         /\ cpc' = cpc
    ELSE /\ ci' = [ci EXCEPT ![u] = 0]
         /\ cpc' = [cpc EXCEPT ![u] = after]

\* a for loop over self.alive_soldiers begins: at its first entry, or past the
\* loop if there is none
Enter(u, loop, after) ==
    IF Len(cmd[u].alive_soldiers) > 0
    THEN /\ ci' = [ci EXCEPT ![u] = 1]
         /\ cpc' = [cpc EXCEPT ![u] = loop]
    ELSE /\ ci' = [ci EXCEPT ![u] = 0]
         /\ cpc' = [cpc EXCEPT ![u] = after]

\* ------------------------------------------------------------------------
\* The initial commander's start (src/game.py:476-479)

\* Commander.send_startup_message (lines 250-255), one soldier, with the
\* handler War.StartupStatus (lines 390-406) that answers it
send_startup_message(u) ==
    /\ cpc[u] = "startup"
    /\ LET e == cmd[u].alive_soldiers[ci[u]] IN
       IF Reachable(e.addr)
       THEN \E p \in StartCells(cmd[u].board_size) :
              /\ soldier' = [soldier EXCEPT ![e.addr] =
                               [@ EXCEPT !.sid = e.sid,
                                         !.board_size = cmd[u].board_size,
                                         !.position = p]]
              /\ cmd' = [cmd EXCEPT ![u].alive_soldiers[ci[u]].position = p]
              /\ Received(e.addr, "StartupStatus")
              /\ Advance(u, "set_position")
       ELSE /\ Raise(u)
            /\ UNCHANGED <<soldier, cmd, calls, ci>>
    /\ UNCHANGED <<server, main_pc, handler_pc, request, to_delete, promoted_to,
                   missiles, failures>>
    /\ UNCHANGED <<conf, shelter_vars>>

\* the for loop of Commander.set_position (lines 240-242) from entry i on:
\* the positions it can end with
RECURSIVE SetPositionLoop(_, _, _, _)
SetPositionLoop(position, alive_soldiers, i, board_size) ==
    IF i > Len(alive_soldiers)
    THEN {position}
    ELSE IF position = alive_soldiers[i].position
    THEN UNION {SetPositionLoop(p, alive_soldiers, i + 1, board_size) :
                  p \in StartCells(board_size)}
    ELSE SetPositionLoop(position, alive_soldiers, i + 1, board_size)

\* Commander.set_position (lines 234-243), then run_game_loop begins with
\* print_layout (line 320)
set_position(u) ==
    /\ cpc[u] = "set_position"
    /\ \E p0 \in StartCells(cmd[u].board_size) :
         \E p \in SetPositionLoop(p0, cmd[u].alive_soldiers, 1, cmd[u].board_size) :
           cmd' = [cmd EXCEPT ![u].position = p, ![u].has_position = TRUE]
    /\ cpc' = [cpc EXCEPT ![u] = "loop"]
    /\ UNCHANGED <<soldier, server, main_pc, handler_pc, request, ci, to_delete,
                   calls, promoted_to, missiles, failures>>
    /\ UNCHANGED <<conf, shelter_vars>>

\* ------------------------------------------------------------------------
\* Commander.run_game_loop (src/game.py:319-339)

\* line 321 with the test of is_alive forgotten
LoopRunsWhileNotOver(c) == ~c.game_over

\* line 321 with the test of game_over forgotten
LoopRunsWhileAlive(c) == c.is_alive

\* the test of the while loop (line 321)
LoopRuns(c) == ~c.game_over /\ c.is_alive

\* The while test holds (line 321); send_missile_approaching_message begins
\* (lines 258-260): spawn_missile, then the commander takes shelter itself.
round_start(u) ==
    /\ cpc[u] = "loop"
    /\ LoopRuns(cmd[u])
    /\ \E missile_type \in GameMissileTypes,
          missile_pos \in MissileCells(cmd[u].board_size) :
         \E r \in take_shelter(cmd[u].position, cmd[u].speed, cmd[u].was_hit,
                               cmd[u].board_size, missile_type, missile_pos) :
           cmd' = [cmd EXCEPT ![u].missile_type = missile_type,
                              ![u].missile_pos = missile_pos,
                              ![u].position = r.position,
                              ![u].was_hit = r.was_hit]
    /\ missiles' = missiles + 1
    /\ Enter(u, "notify", "sleep")
    /\ UNCHANGED <<soldier, server, main_pc, handler_pc, request, to_delete, calls,
                   promoted_to, failures>>
    /\ UNCHANGED <<conf, shelter_vars>>

\* the for loop of send_missile_approaching_message (lines 262-271), one
\* soldier, with the handler War.MissileApproaching (lines 408-410)
send_missile_approaching_message(u) ==
    /\ cpc[u] = "notify"
    /\ LET e == cmd[u].alive_soldiers[ci[u]]
           s == soldier[e.addr]
       IN
       IF Reachable(e.addr)
       THEN /\ \E r \in take_shelter(s.position, s.speed, s.was_hit, s.board_size,
                                     cmd[u].missile_type, cmd[u].missile_pos) :
                 soldier' = [soldier EXCEPT ![e.addr].position = r.position,
                                            ![e.addr].was_hit = r.was_hit]
            /\ Received(e.addr, "MissileApproaching")
            /\ Advance(u, "sleep")
       ELSE /\ Raise(u)
            /\ UNCHANGED <<soldier, calls, ci>>
    /\ UNCHANGED <<server, main_pc, handler_pc, request, cmd, to_delete,
                   promoted_to, missiles, failures>>
    /\ UNCHANGED <<conf, shelter_vars>>

\* lines 323-324, then send_round_status_message begins (line 274)
sleep(u) ==
    /\ cpc[u] = "sleep"
    /\ cmd' = [cmd EXCEPT ![u].cur_time = @ + cmd[u].time_to_missile]
    /\ to_delete' = [to_delete EXCEPT ![u] = {}]
    /\ Enter(u, "status", "round_end")
    /\ UNCHANGED <<soldier, server, main_pc, handler_pc, request, calls,
                   promoted_to, missiles, failures>>
    /\ UNCHANGED <<conf, shelter_vars>>

\* the for loop of send_round_status_message (lines 275-284), one soldier,
\* with the handler War.RoundStatus (lines 412-419)
send_round_status_message(u) ==
    /\ cpc[u] = "status"
    /\ LET e == cmd[u].alive_soldiers[ci[u]]
           s == soldier[e.addr]
       IN
       IF Reachable(e.addr)
       THEN /\ soldier' = [soldier EXCEPT ![e.addr].is_alive = ~s.was_hit]
            /\ IF s.was_hit
               THEN /\ to_delete' = [to_delete EXCEPT ![u] = @ \cup {e.sid}]
                    /\ cmd' = cmd
               ELSE /\ cmd' = [cmd EXCEPT
                                 ![u].alive_soldiers[ci[u]].position = s.position]
                    /\ to_delete' = to_delete
            /\ Received(e.addr, "RoundStatus")
            /\ Advance(u, "round_end")
       ELSE /\ Raise(u)
            /\ UNCHANGED <<soldier, cmd, to_delete, calls, ci>>
    /\ UNCHANGED <<server, main_pc, handler_pc, request, promoted_to, missiles,
                   failures>>
    /\ UNCHANGED <<conf, shelter_vars>>

\* line 285 over the inventory instead of over self.alive_soldiers
RemoveHitFromInventory(alive_soldiers, deleted) ==
    LET Kept(e) == e.sid \notin deleted
    IN  SelectSeq(Inventory, Kept)

\* line 285 forgotten: the soldiers that reported a hit stay on the roster
RemoveHitForgotten(alive_soldiers, deleted) == alive_soldiers

\* line 285 with the test inverted: the soldiers that reported a hit are kept
RemoveNotHit(alive_soldiers, deleted) ==
    LET Kept(e) == e.sid \in deleted
    IN  SelectSeq(alive_soldiers, Kept)

\* line 285: the roster without the soldiers that reported a hit
RemoveHit(alive_soldiers, deleted) ==
    LET Kept(e) == e.sid \notin deleted
    IN  SelectSeq(alive_soldiers, Kept)

\* the end of send_round_status_message (line 285) and of the round
\* (lines 326-329)
round_end(u) ==
    /\ cpc[u] = "round_end"
    /\ cmd' = [cmd EXCEPT
                 ![u].alive_soldiers = RemoveHit(@, to_delete[u]),
                 ![u].is_alive = ~cmd[u].was_hit,
                 ![u].game_over = (cmd[u].game_over \/ cmd[u].cur_time >= cmd[u].game_time)]
    /\ cpc' = [cpc EXCEPT ![u] = "loop"]
    /\ UNCHANGED <<soldier, server, main_pc, handler_pc, request, ci, to_delete,
                   calls, promoted_to, missiles, failures>>
    /\ UNCHANGED <<conf, shelter_vars>>

\* line 338 with the test of the roster forgotten
HandsOverAlways(c) == TRUE

\* line 338: a commander that is not alive hands over if it has soldiers left
HandsOver(c) == Len(c.alive_soldiers) > 0

\* The while test fails (line 321): a living commander ends the game
\* (line 332), a dead one with soldiers left hands over (lines 338-339), a dead
\* one without soldiers just returns.
loop_exit(u) ==
    /\ cpc[u] = "loop"
    /\ ~LoopRuns(cmd[u])
    /\ IF cmd[u].is_alive
       THEN Enter(u, "game_over", "done")
       ELSE IF HandsOver(cmd[u])
       THEN /\ cpc' = [cpc EXCEPT ![u] = "new_commander"]
            /\ ci' = ci
       ELSE /\ cpc' = [cpc EXCEPT ![u] = "done"]
            /\ ci' = ci
    /\ UNCHANGED <<soldier, server, main_pc, handler_pc, request, cmd, to_delete,
                   calls, promoted_to, missiles, failures>>
    /\ UNCHANGED <<conf, shelter_vars>>

\* Commander.send_game_over (lines 313-317), one soldier, with the handler
\* War.GameOver (lines 444-447); lines 333-337 after the last one clear the
\* missile, which only print_layout reads from then on, and print
send_game_over(u) ==
    /\ cpc[u] = "game_over"
    /\ LET e == cmd[u].alive_soldiers[ci[u]] IN
       IF Reachable(e.addr)
       THEN /\ soldier' = [soldier EXCEPT ![e.addr].game_over = TRUE]
            /\ Received(e.addr, "GameOver")
            /\ Advance(u, "done")
       ELSE /\ Raise(u)
            /\ UNCHANGED <<soldier, calls, ci>>
    /\ UNCHANGED <<server, main_pc, handler_pc, request, cmd, to_delete,
                   promoted_to, missiles, failures>>
    /\ UNCHANGED <<conf, shelter_vars>>

\* ------------------------------------------------------------------------
\* The hand-off (src/game.py:287-311, 421-442, 493-504)

\* lines 291-299: the roster sent, without the entry of the chosen soldier
AliveSoldiersSent(alive_soldiers, new_commander) ==
    LET Other(e) == e.sid # new_commander.sid
    IN  SelectSeq(alive_soldiers, Other)

\* lines 302-311 with the time passed so far left out of the request
NewCommanderRequestTimeReset(c, new_commander) ==
    [board_size |-> c.board_size, num_soldiers |-> c.num_soldiers,
     time_to_missile |-> c.time_to_missile, game_time |-> c.game_time,
     cur_time |-> 0,
     alive_soldiers |-> AliveSoldiersSent(c.alive_soldiers, new_commander)]

\* lines 302-311: the request
NewCommanderRequest(c, new_commander) ==
    [board_size |-> c.board_size, num_soldiers |-> c.num_soldiers,
     time_to_missile |-> c.time_to_missile, game_time |-> c.game_time,
     cur_time |-> c.cur_time,
     alive_soldiers |-> AliveSoldiersSent(c.alive_soldiers, new_commander)]

\* line 289 choosing among all soldiers of the inventory
ChoiceOfInventory(alive_soldiers) == {Inventory[i] : i \in 1..Len(Inventory)}

\* line 289: random.choice(self.alive_soldiers)
Choice(alive_soldiers) == {alive_soldiers[i] : i \in 1..Len(alive_soldiers)}

\* Commander.send_new_commander_message (lines 287-311) up to the call: the
\* request reaches the chosen soldier's server and its handler begins
send_new_commander_message(u) ==
    /\ cpc[u] = "new_commander"
    /\ \E new_commander \in Choice(cmd[u].alive_soldiers) :
         /\ promoted_to' = [promoted_to EXCEPT ![u] = Append(@, new_commander.addr)]
         /\ IF Reachable(new_commander.addr)
            THEN /\ request' = [request EXCEPT ![new_commander.addr] =
                                  NewCommanderRequest(cmd[u], new_commander)]
                 /\ handler_pc' = [handler_pc EXCEPT ![new_commander.addr] = "called"]
                 /\ Received(new_commander.addr, "NewCommander")
                 /\ cpc' = [cpc EXCEPT ![u] = "wait"]
            ELSE /\ Raise(u)
                 /\ UNCHANGED <<request, handler_pc, calls>>
    /\ UNCHANGED <<soldier, server, main_pc, cmd, ci, to_delete, missiles, failures>>
    /\ UNCHANGED <<conf, shelter_vars>>

\* War.NewCommander, line 422
NewCommander_promoted(m) ==
    /\ handler_pc[m] = "called"
    /\ soldier' = [soldier EXCEPT ![m].is_promoted = TRUE]
    /\ handler_pc' = [handler_pc EXCEPT ![m] = "promoted"]
    /\ UNCHANGED <<server, main_pc, request, cmd, cpc, ci, to_delete, calls,
                   promoted_to, missiles, failures>>
    /\ UNCHANGED <<conf, shelter_vars>>

\* War.NewCommander, lines 423-430: self.commander = Commander(...)
NewCommander_commander(m) ==
    /\ handler_pc[m] = "promoted"
    /\ \E v \in GameSpeeds :
         cmd' = [cmd EXCEPT ![m] =
                   Commander(request[m].board_size, request[m].num_soldiers,
                             request[m].time_to_missile, request[m].game_time,
                             request[m].cur_time, FALSE, v)]
    /\ handler_pc' = [handler_pc EXCEPT ![m] = "commander"]
    /\ UNCHANGED <<soldier, server, main_pc, request, cpc, ci, to_delete, calls,
                   promoted_to, missiles, failures>>
    /\ UNCHANGED <<conf, shelter_vars>>

\* lines 432-440 keeping the soldier's own entry, taken from the soldier
AliveSoldiersWithSelf(alive_soldiers, s) ==
    Append(alive_soldiers, [sid |-> s.sid, addr |-> s.sid, position |-> s.position])

\* lines 432-440: the roster of the request without the soldier's own entry
AliveSoldiersReceived(alive_soldiers, s) ==
    LET Other(e) == e.sid # s.sid
    IN  SelectSeq(alive_soldiers, Other)

\* War.NewCommander, lines 432-440
NewCommander_alive_soldiers(m) ==
    /\ handler_pc[m] = "commander"
    /\ cmd' = [cmd EXCEPT
                 ![m].alive_soldiers =
                     AliveSoldiersReceived(request[m].alive_soldiers, soldier[m]),
                 ![m].has_roster = TRUE]
    /\ handler_pc' = [handler_pc EXCEPT ![m] = "alive_soldiers"]
    /\ UNCHANGED <<soldier, server, main_pc, request, cpc, ci, to_delete, calls,
                   promoted_to, missiles, failures>>
    /\ UNCHANGED <<conf, shelter_vars>>

\* War.NewCommander, line 441
NewCommander_position(m) ==
    /\ handler_pc[m] = "alive_soldiers"
    /\ cmd' = [cmd EXCEPT ![m].position = soldier[m].position,
                          ![m].has_position = TRUE]
    /\ handler_pc' = [handler_pc EXCEPT ![m] = "position"]
    /\ UNCHANGED <<soldier, server, main_pc, request, cpc, ci, to_delete, calls,
                   promoted_to, missiles, failures>>
    /\ UNCHANGED <<conf, shelter_vars>>

\* War.NewCommander, line 442: the reply reaches the caller, whose
\* send_new_commander_message and run_game_loop return
NewCommander_return(m) ==
    /\ handler_pc[m] = "position"
    /\ handler_pc' = [handler_pc EXCEPT ![m] = "returned"]
    /\ cpc' = [u \in Units |->
                 IF cpc[u] = "wait" /\ promoted_to[u] # <<>>
                    /\ promoted_to[u][Len(promoted_to[u])] = m
                 THEN "done" ELSE cpc[u]]
    /\ UNCHANGED <<soldier, server, main_pc, request, cmd, ci, to_delete, calls,
                   promoted_to, missiles, failures>>
    /\ UNCHANGED <<conf, shelter_vars>>

\* ------------------------------------------------------------------------
\* The main thread of a soldier process (src/game.py:493-504)

\* lines 494-497: the busy loop sees a flag and stops the server; server.stop
\* refuses new calls and lets the running handlers finish. With no handler
\* running, nothing can set is_promoted any more: a soldier that is not
\* promoted fails the test of line 503 and its process ends.
serve_loop_break(m) ==
    /\ main_pc[m] = "serve"
    /\ ~soldier[m].is_alive \/ soldier[m].game_over \/ soldier[m].is_promoted
    /\ server' = [server EXCEPT ![m] = "stopped"]
    /\ main_pc' = [main_pc EXCEPT ![m] =
                     IF ~soldier[m].is_promoted /\ handler_pc[m] \in {"idle", "returned"}
                     THEN "exit" ELSE "stopped"]
    /\ UNCHANGED <<soldier, handler_pc, request, cmd, cpc, ci, to_delete, calls,
                   promoted_to, missiles, failures>>
    /\ UNCHANGED <<conf, shelter_vars>>

\* lines 503-504: a promoted soldier reads war_service.commander, an
\* AttributeError while the handler has not assigned it; any other soldier's
\* process ends
after_serve_loop(m) ==
    /\ main_pc[m] = "stopped"
    /\ main_pc' = [main_pc EXCEPT ![m] =
                     IF ~soldier[m].is_promoted THEN "exit"
                     ELSE IF cmd[m].exists THEN "run_game_loop"
                     ELSE "crashed"]
    /\ UNCHANGED <<soldier, server, handler_pc, request, cmd, cpc, ci, to_delete,
                   calls, promoted_to, missiles, failures>>
    /\ UNCHANGED <<conf, shelter_vars>>

\* line 504, run_game_loop begins with print_layout (line 320), which reads
\* self.alive_soldiers and self.position (line 361): an AttributeError while
\* the handler has not assigned them
promoted_run_game_loop(m) ==
    /\ main_pc[m] = "run_game_loop"
    /\ IF cmd[m].has_roster /\ cmd[m].has_position
       THEN /\ main_pc' = [main_pc EXCEPT ![m] = "commander"]
            /\ cpc' = [cpc EXCEPT ![m] = "loop"]
       ELSE /\ main_pc' = [main_pc EXCEPT ![m] = "crashed"]
            /\ cpc' = cpc
    /\ UNCHANGED <<soldier, server, handler_pc, request, cmd, ci, to_delete,
                   calls, promoted_to, missiles, failures>>
    /\ UNCHANGED <<conf, shelter_vars>>

\* ------------------------------------------------------------------------
\* The environment: a soldier process is taken down (killed, or cut off the
\* network); calls to its address fail from then on
process_down(m) ==
    /\ failures < MaxFailures
    /\ server[m] = "serving"
    /\ handler_pc[m] \in {"idle", "returned"}
    /\ server' = [server EXCEPT ![m] = "down"]
    /\ main_pc' = [main_pc EXCEPT ![m] = "exit"]
    /\ failures' = failures + 1
    /\ UNCHANGED <<soldier, handler_pc, request, cmd, cpc, ci, to_delete, calls,
                   promoted_to, missiles>>
    /\ UNCHANGED <<conf, shelter_vars>>

\* ------------------------------------------------------------------------
\* The start of the commander process (src/game.py:460-476)

\* the values of config.toml the model explores: a board one cell too small
\* or large enough, one soldier less or more than there are addresses, a
\* time between missiles within the game time or beyond it
ConfigBoardSizes == {MIN_BOARD_SIZE - 1, BoardSize}
ConfigNumSoldiers == (NumSoldiers - 1)..(NumSoldiers + 1)
ConfigTimesToMissile == {TimeToMissile, GameTime + 1}

\* the soldier processes serve, the commander process has read config.toml
\* (lines 460-461)
ConfigInit ==
    /\ ShelterOff
    /\ soldier \in [Soldiers -> {NewSoldier(v) : v \in GameSpeeds}]
    /\ server = [m \in Soldiers |-> "serving"]
    /\ main_pc = [m \in Soldiers |-> "serve"]
    /\ handler_pc = [m \in Soldiers |-> "idle"]
    /\ request = [m \in Soldiers |-> NoRequest]
    /\ cmd = [u \in Units |-> NoCommander]
    /\ cpc = [u \in Units |-> IF u = 0 THEN "main" ELSE "idle"]
    /\ ci = [u \in Units |-> 0]
    /\ to_delete = [u \in Units |-> {}]
    /\ calls = [m \in Soldiers |-> NoCalls]
    /\ promoted_to = [u \in Units |-> <<>>]
    /\ missiles = 0
    /\ failures = 0
    /\ conf \in [N : ConfigBoardSizes, M : ConfigNumSoldiers,
                 t : ConfigTimesToMissile, T : {GameTime}]

\* lines 463-476: the test of M only prints (lines 463-464), the tests of N
\* and of t against T end the process (lines 465-474), Commander(...) raises
\* ValueError when there are fewer addresses than M (lines 229-230) and
\* otherwise send_startup_message begins (line 477)
commander_main(u) ==
    /\ cpc[u] = "main"
    /\ IF conf.N < MIN_BOARD_SIZE \/ conf.t > conf.T
       THEN /\ cpc' = [cpc EXCEPT ![u] = "exit"]
            /\ UNCHANGED <<cmd, ci>>
       ELSE IF Len(Inventory) < conf.M
       THEN /\ Raise(u)
            /\ UNCHANGED <<cmd, ci>>
       ELSE /\ \E v \in GameSpeeds :
                 cmd' = [cmd EXCEPT ![u] =
                           Commander(conf.N, conf.M, conf.t, conf.T, 0, TRUE, v)]
            /\ cpc' = [cpc EXCEPT ![u] = "startup"]
            /\ ci' = [ci EXCEPT ![u] = 1]
    /\ UNCHANGED <<soldier, server, main_pc, handler_pc, request, to_delete, calls,
                   promoted_to, missiles, failures>>
    /\ UNCHANGED <<conf, shelter_vars>>

\* ------------------------------------------------------------------------
\* Specifications

CommanderStep(u) ==
    \/ send_startup_message(u)
    \/ set_position(u)
    \/ round_start(u)
    \/ send_missile_approaching_message(u)
    \/ sleep(u)
    \/ send_round_status_message(u)
    \/ round_end(u)
    \/ loop_exit(u)
    \/ send_game_over(u)
    \/ send_new_commander_message(u)

SoldierStep(m) ==
    \/ NewCommander_promoted(m)
    \/ NewCommander_commander(m)
    \/ NewCommander_alive_soldiers(m)
    \/ NewCommander_position(m)
    \/ NewCommander_return(m)
    \/ serve_loop_break(m)
    \/ after_serve_loop(m)
    \/ promoted_run_game_loop(m)

\* the game with every soldier process up for as long as its own code keeps it up
Next ==
    \/ \E u \in Units : CommanderStep(u)
    \/ \E m \in Soldiers : SoldierStep(m)

Spec == Init /\ [][Next]_vars

\* the steps of the thread of the server's pool that runs War.NewCommander
HandlerStep(m) ==
    \/ NewCommander_promoted(m)
    \/ NewCommander_commander(m)
    \/ NewCommander_alive_soldiers(m)
    \/ NewCommander_position(m)
    \/ NewCommander_return(m)

\* the steps of the main thread of a soldier process up to run_game_loop
MainStep(m) ==
    \/ serve_loop_break(m)
    \/ after_serve_loop(m)
    \/ promoted_run_game_loop(m)

\* The game with every thread scheduled again and again: the thread that runs
\* Commander code in each process, and in each soldier process the handler
\* thread and the main thread. No call blocks for ever (every soldier is
\* reachable, time.sleep returns), so a thread that can take a step takes it.
Fairness ==
    /\ \A u \in Units : WF_vars(CommanderStep(u))
    /\ \A m \in Soldiers : WF_vars(HandlerStep(m))
    /\ \A m \in Soldiers : WF_vars(MainStep(m))

FairSpec == Init /\ [][Next]_vars /\ Fairness

\* the game with soldier processes that may go down
UnreachableNext ==
    \/ Next
    \/ \E m \in Soldiers : process_down(m)

UnreachableSpec == Init /\ [][UnreachableNext]_vars

\* the game from the start of the commander process, on every config.toml
ConfigNext ==
    \/ commander_main(0)
    \/ Next

ConfigSpec == ConfigInit /\ [][ConfigNext]_vars

\* ------------------------------------------------------------------------
\* One call of take_shelter, on every unit and every missile

\* every unit on every accepted board, every missile spawn_missile can return;
\* no game is running
ShelterInit ==
    /\ sh_pc = "ready"
    /\ \E n \in BoardSizes :
         /\ sh_unit \in [board_size : {n}, position : Cells(n),
                         speed : Speeds, was_hit : {FALSE}]
         /\ sh_missile \in [type : MissileTypes, position : Cells(n)]
    /\ sh_start = sh_unit.position
    /\ sh_dir = NoDirection
    /\ GameOff

\* MissileApproaching (src/game.py:408-410) on the unit: take_shelter runs
ShelterCall ==
    /\ sh_pc = "ready"
    /\ \E r \in take_shelter(sh_unit.position, sh_unit.speed, sh_unit.was_hit,
                             sh_unit.board_size, sh_missile.type, sh_missile.position) :
         /\ sh_unit' = [sh_unit EXCEPT !.position = r.position, !.was_hit = r.was_hit]
         /\ sh_dir' = r.direction
    /\ sh_pc' = "done"
    /\ UNCHANGED <<sh_missile, sh_start>>
    /\ UNCHANGED game_vars

ShelterNext == ShelterCall

ShelterSpec == ShelterInit /\ [][ShelterNext]_vars

\* ------------------------------------------------------------------------
\* Properties of take_shelter

InBounds(position, board_size) ==
    /\ 0 <= position[1] /\ position[1] < board_size
    /\ 0 <= position[2] /\ position[2] < board_size

ShelterStartInRadius ==
    is_position_in_blast_radius(sh_start, sh_missile.type, sh_missile.position,
                                sh_unit.board_size)

\* the destination the statement of C8 gives for one direction, as a set:
\* axis-aligned, the full-speed move clamped per axis; diagonal, the move by
\* the largest e in 1..speed that stays on the board, none if there is none
Destination(position, speed, direction, board_size) ==
    IF ~is_diagonal(direction)
    THEN {<<Max(0, Min(position[1] + speed * direction[1], board_size - 1)),
            Max(0, Min(position[2] + speed * direction[2], board_size - 1))>>}
    ELSE LET E == {e \in 1..speed :
                     InBounds(<<position[1] + e * direction[1],
                                position[2] + e * direction[2]>>, board_size)}
         IN  IF E = {} THEN {}
             ELSE LET e == CHOOSE x \in E : \A y \in E : y <= x
                  IN  {<<position[1] + e * direction[1],
                         position[2] + e * direction[2]>>}

SafeDestinations ==
    {c \in UNION {Destination(sh_start, sh_unit.speed, d, sh_unit.board_size) :
                    d \in directions} :
        ~is_position_in_blast_radius(c, sh_missile.type, sh_missile.position,
                                     sh_unit.board_size)}

\* the scenario of C8: board 8, speed 2, unit and kind-1 missile at (5,5)
ShelterScenario ==
    /\ sh_unit.board_size = 8
    /\ sh_unit.speed = 2
    /\ sh_start = <<5, 5>>
    /\ sh_missile = [type |-> 1, position |-> <<5, 5>>]

\* C8: a unit in the blast radius with speed >= 1 is hit exactly when none of
\* its eight destinations is outside the radius, and otherwise ends, not hit,
\* on one of the safe destinations; in the scenario it survives on the board
\* away from (5,5).
C8_HitIffNoSafeDestination ==
    (sh_pc = "done" /\ ShelterStartInRadius /\ sh_unit.speed >= 1) =>
        /\ sh_unit.was_hit <=> (SafeDestinations = {})
        /\ ~sh_unit.was_hit => sh_unit.position \in SafeDestinations
        /\ ShelterScenario =>
              /\ ~sh_unit.was_hit
              /\ sh_unit.position # <<5, 5>>
              /\ InBounds(sh_unit.position, 8)

C8_Witness ==
    /\ sh_pc = "done"
    /\ ShelterScenario
    /\ ~sh_unit.was_hit
    /\ sh_unit.position = <<7, 7>>

\* C9: a unit of speed 0 in the blast radius is hit and does not move.
C9_SpeedZeroIsHit ==
    (sh_pc = "done" /\ sh_unit.speed = 0 /\ ShelterStartInRadius) =>
        (sh_unit.was_hit /\ sh_unit.position = sh_start)

C9_Witness ==
    /\ sh_pc = "done"
    /\ sh_unit.speed = 0
    /\ ShelterStartInRadius
    /\ sh_unit.was_hit

\* C10: an accepted diagonal move displaces the unit by the same e in
\* 1..speed on both axes.
C10_DiagonalNotClamped ==
    (sh_pc = "done" /\ is_diagonal(sh_dir)) =>
        /\ Abs(sh_unit.position[1] - sh_start[1]) = Abs(sh_unit.position[2] - sh_start[2])
        /\ Abs(sh_unit.position[1] - sh_start[1]) \in 1..sh_unit.speed
        /\ sh_unit.position[1] - sh_start[1] =
              Abs(sh_unit.position[1] - sh_start[1]) * sh_dir[1]
        /\ sh_unit.position[2] - sh_start[2] =
              Abs(sh_unit.position[2] - sh_start[2]) * sh_dir[2]

\* a diagonal move accepted at less than the unit's speed
C10_Witness ==
    /\ sh_pc = "done"
    /\ is_diagonal(sh_dir)
    /\ ~sh_unit.was_hit
    /\ Abs(sh_unit.position[1] - sh_start[1]) < sh_unit.speed

\* ------------------------------------------------------------------------
\* Properties of the game

\* the unit's commander was hit and the round that hit it has ended (line 327)
Eliminated(u) == cmd[u].exists /\ ~cmd[u].is_alive

\* the units that hold the commander role: a living commander whose thread
\* is between its start and the end of send_game_over
Leaders ==
    {u \in Units :
        /\ cpc[u] \in {"startup", "set_position", "loop", "notify", "sleep",
                       "status", "round_end", "game_over"}
        /\ cmd[u].is_alive}

\* the units that drive a round, or are about to start one
Drivers ==
    {u \in Units :
        \/ cpc[u] \in {"notify", "sleep", "status", "round_end"}
        \/ cpc[u] = "loop" /\ LoopRuns(cmd[u])}

\* the game has ended: a living commander has sent GameOver to its roster, or
\* a commander was eliminated with no soldier left
GameEnded ==
    \E u \in Units :
        \/ cpc[u] = "done" /\ cmd[u].is_alive
        \/ Eliminated(u) /\ Len(cmd[u].alive_soldiers) = 0

\* a commander with soldiers left was eliminated and the soldier it chooses
\* has not started its round loop
HandOffWindow ==
    \E u \in Units :
        /\ Eliminated(u)
        /\ Len(cmd[u].alive_soldiers) > 0
        /\ \/ promoted_to[u] = <<>>
           \/ cpc[promoted_to[u][1]] = "idle"

\* C1: never two leaders and never two units driving rounds, a unit that
\* drives a round is a living leader, and while the game has not ended there
\* is exactly one leader outside the hand-off window.
C1_OneLeader ==
    /\ Cardinality(Leaders) <= 1
    /\ Cardinality(Drivers) <= 1
    /\ Drivers \subseteq Leaders
    /\ (~GameEnded /\ ~HandOffWindow) => Cardinality(Leaders) = 1

\* a promoted soldier leads a round while the commander that chose it has
\* returned
C1_Witness ==
    \E u \in Units, m \in Soldiers :
        /\ cpc[u] = "done"
        /\ promoted_to[u] = <<m>>
        /\ cpc[m] = "status"
        /\ Leaders = {m}

\* C2: a RoundStatus call to a soldier that cannot be reached puts the
\* soldier on the list of soldiers to remove, and the commander goes on with
\* the next soldier or with the end of the round.
C2_UnreachableIsDropped ==
    [][\A u \in Units :
         (/\ cpc[u] = "status"
          /\ ~Reachable(cmd[u].alive_soldiers[ci[u]].addr)
          /\ (cpc'[u] # cpc[u] \/ ci'[u] # ci[u]))
         => /\ cpc'[u] \in {"status", "round_end"}
            /\ cmd[u].alive_soldiers[ci[u]].sid \in to_delete'[u]]_vars

\* C3: a commander sends at most one NewCommander; it sends it only when
\* eliminated, to a soldier of its roster that did not report a hit; and an
\* eliminated commander with a non-empty roster has sent one once
\* send_new_commander_message has made its call.
C3_OnePromote ==
    \A u \in Units :
        /\ Len(promoted_to[u]) <= 1
        /\ promoted_to[u] # <<>> =>
              /\ Eliminated(u)
              /\ promoted_to[u][1] \in Sids(cmd[u].alive_soldiers)
              /\ soldier[promoted_to[u][1]].is_alive
              /\ calls[promoted_to[u][1]]["NewCommander"] = 1
        /\ (/\ Eliminated(u)
            /\ Len(cmd[u].alive_soldiers) > 0
            /\ cpc[u] \in {"wait", "done"}) => Len(promoted_to[u]) = 1
        /\ (cpc[u] = "done" /\ (cmd[u].is_alive \/ Len(cmd[u].alive_soldiers) = 0))
              => promoted_to[u] = <<>>

\* a promoted soldier was eliminated in turn and has handed over, with a
\* soldier that reported a hit left out of the choice
C3_Witness ==
    \E u \in Soldiers :
        /\ cpc[u] = "done"
        /\ Len(promoted_to[u]) = 1
        /\ Len(cmd[u].alive_soldiers) = 1
        /\ Len(cmd[0].alive_soldiers) = 2

\* C4: the roster of a promoted soldier's commander does not hold the
\* soldier's own sid.
C4_RosterWithoutSelf ==
    \A m \in Soldiers :
        cmd[m].has_roster => soldier[m].sid \notin Sids(cmd[m].alive_soldiers)

C4_Witness ==
    \E m \in Soldiers :
        /\ cmd[m].has_roster
        /\ Len(cmd[m].alive_soldiers) > 0
        /\ cpc[m] = "notify"

\* the commander is at the end of a round of its own (after line 329) with
\* itself alive and the game time reached
AliveAtGameTime(u) ==
    /\ cpc[u] = "loop"
    /\ cmd[u].missile_type # 0
    /\ cmd[u].is_alive
    /\ cmd[u].cur_time >= cmd[u].game_time

\* a commander is there, or is sending GameOver, or has sent it
Terminating ==
    \E u \in Units :
        \/ AliveAtGameTime(u)
        \/ cmd[u].is_alive /\ cpc[u] \in {"game_over", "done"}

C5_GameOverToRoster ==
    \A u \in Units :
        /\ (cpc[u] = "done" /\ cmd[u].is_alive) =>
              \A m \in Soldiers :
                  calls[m]["GameOver"] =
                      IF m \in Sids(cmd[u].alive_soldiers) THEN 1 ELSE 0
        /\ (cpc[u] = "game_over") =>
              \A m \in Soldiers :
                  calls[m]["GameOver"] =
                      IF \E i \in 1..(ci[u] - 1) : cmd[u].alive_soldiers[i].sid = m
                      THEN 1 ELSE 0

C5_NoRoundAfter ==
    Terminating =>
        /\ missiles' = missiles
        /\ \A m \in Soldiers :
              /\ calls'[m]["MissileApproaching"] = calls[m]["MissileApproaching"]
              /\ calls'[m]["RoundStatus"] = calls[m]["RoundStatus"]

\* C5: a living commander that has reached the game time at the end of a
\* round starts no further round and sends GameOver once to each soldier of
\* its roster and to no other soldier; from then on no unit spawns a missile
\* or sends MissileApproaching or RoundStatus.
C5_Terminate == [](C5_GameOverToRoster) /\ [][C5_NoRoundAfter]_vars

\* a promoted soldier has ended the game with a soldier left on its roster
C5_Witness ==
    \E u \in Soldiers :
        /\ cpc[u] = "done"
        /\ cmd[u].is_alive
        /\ Len(cmd[u].alive_soldiers) = 1

\* C6: no step adds a sid to the roster of a commander, or lengthens it.
C6_RosterShrinks ==
    [][\A u \in Units :
         cmd[u].has_roster =>
            /\ cmd'[u].has_roster
            /\ Sids(cmd'[u].alive_soldiers) \subseteq Sids(cmd[u].alive_soldiers)
            /\ Len(cmd'[u].alive_soldiers) <= Len(cmd[u].alive_soldiers)]_vars

\* the initial commander starts a second round with a shorter roster
C6_Witness ==
    /\ cpc[0] = "notify"
    /\ missiles = 2
    /\ Len(cmd[0].alive_soldiers) < NumSoldiers

\* C7: the position of every soldier that answered StartupStatus and of
\* every commander that has one is on the board.
C7_PositionOnBoard ==
    /\ \A m \in Soldiers :
          soldier[m].sid # 0 => InBounds(soldier[m].position, soldier[m].board_size)
    /\ \A u \in Units :
          cmd[u].has_position => InBounds(cmd[u].position, cmd[u].board_size)

\* a promoted soldier that had moved as a soldier has moved again as commander
C7_Witness ==
    \E m \in Soldiers :
        /\ cmd[m].has_position
        /\ soldier[m].position \notin StartCells(soldier[m].board_size)
        /\ cmd[m].position # soldier[m].position

\* ------------------------------------------------------------------------
\* Properties of the game: hit units

\* a soldier that is hit stays hit and stays where it is
C11_SoldierStaysHit ==
    \A m \in Soldiers :
        soldier[m].was_hit =>
            /\ soldier'[m].was_hit
            /\ soldier'[m].position = soldier[m].position

\* a commander that is hit stays hit and stays where it is
C11_CommanderStaysHit ==
    \A u \in Units :
        (cmd[u].exists /\ cmd[u].was_hit) =>
            /\ cmd'[u].was_hit
            /\ cmd'[u].position = cmd[u].position

\* the RoundStatus a hit soldier answers reports the hit: the commander that
\* asked puts the soldier's sid on its list of soldiers to remove
C11_HitIsReported ==
    \A m \in Soldiers :
        (soldier[m].was_hit /\ calls'[m]["RoundStatus"] > calls[m]["RoundStatus"]) =>
            \E u \in Units : cpc[u] = "status" /\ soldier[m].sid \in to_delete'[u]

\* C11: no step changes the position of a hit unit or makes it a unit that
\* is not hit, and every RoundStatus a hit soldier answers reports the hit.
C11_HitIsFinal ==
    [][C11_SoldierStaysHit /\ C11_CommanderStaysHit /\ C11_HitIsReported]_vars

\* a soldier that was hit in the first round has reported it, and the second
\* round has run its MissileApproaching calls without it
C11_Witness ==
    \E m \in Soldiers, u \in Units :
        /\ soldier[m].was_hit
        /\ ~soldier[m].is_alive
        /\ calls[m]["RoundStatus"] = 1
        /\ missiles = 2
        /\ cpc[u] = "sleep"

\* ------------------------------------------------------------------------
\* Properties of the game: what the hand-off carries

\* the commander of the soldier has run no round of its own yet
BeforeFirstRound(m) == cmd[m].missile_type = 0

\* the commander a promoted soldier gets has the board size, the number of
\* soldiers, the time between missiles and the game time of the commander
\* that chose it, and starts at that commander's time, which is not 0
C12_StateCarriedOver ==
    \A u \in Units, m \in Soldiers :
        (promoted_to[u] = <<m>> /\ cmd[m].exists) =>
            /\ cmd[m].board_size = cmd[u].board_size
            /\ cmd[m].num_soldiers = cmd[u].num_soldiers
            /\ cmd[m].time_to_missile = cmd[u].time_to_missile
            /\ cmd[m].game_time = cmd[u].game_time
            /\ cmd[u].cur_time > 0
            /\ cmd[m].cur_time >= cmd[u].cur_time
            /\ (BeforeFirstRound(m) \/ cpc[m] \in {"notify", "sleep"})
                  => cmd[m].cur_time = cmd[u].cur_time

\* every soldier answers at most one StartupStatus
C12_PlacedOnce ==
    \A m \in Soldiers : calls[m]["StartupStatus"] <= 1

\* once a missile was spawned no soldier receives StartupStatus, and the
\* commander that handed over keeps the values it handed over
C12_NoStartupAfterFirstRound ==
    /\ missiles > 0 =>
          \A m \in Soldiers : calls'[m]["StartupStatus"] = calls[m]["StartupStatus"]
    /\ \A u \in Units : promoted_to[u] # <<>> => cmd'[u] = cmd[u]

\* C12: a promoted soldier's commander starts with the old commander's board
\* size, number of soldiers, time between missiles, game time and current
\* time (never 0); StartupStatus is sent to no soldier after the first
\* missile and to every soldier at most once.
C12_HandOffCarriesTiming ==
    /\ [](C12_StateCarriedOver /\ C12_PlacedOnce)
    /\ [][C12_NoStartupAfterFirstRound]_vars

\* a promoted soldier notifies its roster in its first round, at the time
\* the old commander stopped
C12_Witness ==
    \E u \in Units, m \in Soldiers :
        /\ promoted_to[u] = <<m>>
        /\ cpc[m] = "notify"
        /\ cmd[m].cur_time = cmd[u].cur_time
        /\ cmd[m].cur_time > 0
        /\ calls[m]["StartupStatus"] = 1

\* ------------------------------------------------------------------------
\* Properties of the game: speed

\* C13: the speed of every unit is in 0..MAX_SPEED, and the speed a promoted
\* soldier moves with as commander is the speed it was created with.
C13_SpeedDrawnOnce ==
    /\ \A m \in Soldiers : soldier[m].speed \in Speeds
    /\ \A u \in Units : cmd[u].exists => cmd[u].speed \in Speeds
    /\ \A m \in Soldiers : cmd[m].exists => cmd[m].speed = soldier[m].speed

\* ------------------------------------------------------------------------
\* Properties of the start of the commander process

\* the board is too small, there are too few soldiers, there are fewer
\* addresses than soldiers, or the time between missiles exceeds the game time
InvalidConfiguration ==
    \/ conf.N < MIN_BOARD_SIZE
    \/ conf.M < MIN_SOLDIERS
    \/ Len(Inventory) < conf.M
    \/ conf.t > conf.T

\* C14: with an invalid config.toml no Commander is built, no soldier
\* receives StartupStatus and no missile is spawned.
C14_InvalidConfigurationDoesNotStart ==
    InvalidConfiguration =>
        /\ ~cmd[0].exists
        /\ \A m \in Soldiers : calls[m]["StartupStatus"] = 0
        /\ missiles = 0

\* ------------------------------------------------------------------------
\* Properties of the game: the end without a successor

\* the commander was eliminated and its roster after the round is empty
EliminatedAlone(u) == Eliminated(u) /\ Len(cmd[u].alive_soldiers) = 0

\* such a commander returns from run_game_loop having sent no NewCommander;
\* no soldier has received GameOver and no unit leads or drives a round
C15_NoSuccessor ==
    \A u \in Units :
        EliminatedAlone(u) =>
            /\ cpc[u] \in {"loop", "done"}
            /\ promoted_to[u] = <<>>
            /\ \A m \in Soldiers : calls[m]["GameOver"] = 0
            /\ Leaders = {}
            /\ Drivers = {}

\* from then on no call is made and no missile is spawned
C15_NothingAfter ==
    (\E u \in Units : EliminatedAlone(u)) =>
        /\ calls' = calls
        /\ promoted_to' = promoted_to
        /\ missiles' = missiles

\* C15: a commander eliminated with an empty roster sends neither
\* NewCommander nor GameOver and returns; no unit is commander afterwards
\* and no further call is made.
C15_EndsWithoutSuccessor == [](C15_NoSuccessor) /\ [][C15_NothingAfter]_vars

\* a promoted soldier was eliminated as commander with nobody left
C15_Witness ==
    \E u \in Soldiers :
        /\ EliminatedAlone(u)
        /\ cpc[u] = "done"
        /\ cmd[u].missile_type # 0

\* ------------------------------------------------------------------------
\* Properties of is_position_in_blast_radius

\* the reflections of the board, x to N-1-x: on the first axis (i = 1), on
\* the second (i = 2), on both (i = 3)
Reflect(i, position, board_size) ==
    IF i = 1 THEN <<board_size - 1 - position[1], position[2]>>
    ELSE IF i = 2 THEN <<position[1], board_size - 1 - position[2]>>
    ELSE <<board_size - 1 - position[1], board_size - 1 - position[2]>>

\* C16: for every board size, missile type, position and missile position on
\* the board, the position is in the blast radius exactly when its reflection
\* is in the blast radius of the reflected missile, for each of the three
\* reflections.
C16_BlastRadiusReflection ==
    \A i \in 1..3 :
        is_position_in_blast_radius(sh_start, sh_missile.type, sh_missile.position,
                                    sh_unit.board_size)
        <=> is_position_in_blast_radius(
                Reflect(i, sh_start, sh_unit.board_size), sh_missile.type,
                Reflect(i, sh_missile.position, sh_unit.board_size),
                sh_unit.board_size)

\* a unit in a radius that the edge of the board cuts, with the reflected
\* radius cut by the opposite edge
C16_Witness ==
    /\ sh_pc = "done"
    /\ sh_missile = [type |-> 3, position |-> <<0, 1>>]
    /\ sh_start = <<2, 3>>
    /\ ShelterStartInRadius
    /\ is_position_in_blast_radius(
           Reflect(3, sh_start, sh_unit.board_size), sh_missile.type,
           Reflect(3, sh_missile.position, sh_unit.board_size), sh_unit.board_size)

\* ------------------------------------------------------------------------
\* Properties of Commander.set_position

\* C17: when the initial commander has set its position and no missile was
\* spawned yet, its position is the position of no soldier of its roster.
C17_CommanderStartsAlone ==
    (cpc[0] = "loop" /\ missiles = 0) =>
        \A i \in 1..Len(cmd[0].alive_soldiers) :
            cmd[0].position # cmd[0].alive_soldiers[i].position

\* ------------------------------------------------------------------------
\* Properties of the game: the order of a round

\* the MissileApproaching and RoundStatus calls the soldier at entry i of
\* the unit's roster has received
Notified(u, i) == calls[cmd[u].alive_soldiers[i].addr]["MissileApproaching"]
Queried(u, i) == calls[cmd[u].alive_soldiers[i].addr]["RoundStatus"]

\* Where the commander's thread is fixes, for every soldier of its roster,
\* how many calls it has received: one MissileApproaching and one RoundStatus
\* per missile spawned before the current one, and for the current missile
\* (spawned, and the commander sheltered, when missiles was incremented)
\* a MissileApproaching if the notify loop has passed the soldier and a
\* RoundStatus if the status loop has.
C18_RoundInOrder ==
    \A u \in Units :
        \A i \in 1..Len(cmd[u].alive_soldiers) :
            /\ cpc[u] \in {"startup", "set_position"} =>
                  (missiles = 0 /\ Notified(u, i) = 0 /\ Queried(u, i) = 0)
            /\ cpc[u] = "notify" =>
                  /\ Queried(u, i) = missiles - 1
                  /\ Notified(u, i) = IF i < ci[u] THEN missiles ELSE missiles - 1
            /\ cpc[u] = "sleep" =>
                  (Notified(u, i) = missiles /\ Queried(u, i) = missiles - 1)
            /\ cpc[u] = "status" =>
                  /\ Notified(u, i) = missiles
                  /\ Queried(u, i) = IF i < ci[u] THEN missiles ELSE missiles - 1
            /\ cpc[u] \in {"round_end", "loop", "game_over", "new_commander"} =>
                  (Notified(u, i) = missiles /\ Queried(u, i) = missiles)

\* no soldier is asked for its status before it was notified or notified
\* twice before it was asked
C18_NotifyThenStatus ==
    \A m \in Soldiers :
        /\ calls[m]["RoundStatus"] <= calls[m]["MissileApproaching"]
        /\ calls[m]["MissileApproaching"] <= calls[m]["RoundStatus"] + 1
        /\ calls[m]["MissileApproaching"] <= missiles

\* a missile is spawned only when every MissileApproaching so far was followed
\* by its RoundStatus and no commander is inside a round; a call reaches a
\* soldier only from the loop of a commander that stands at the soldier's entry
C18_NoOverlap ==
    /\ missiles' > missiles =>
          /\ \A m \in Soldiers :
                calls[m]["MissileApproaching"] = calls[m]["RoundStatus"]
          /\ \A u \in Units : cpc[u] \notin {"notify", "sleep", "status", "round_end"}
    /\ \A m \in Soldiers :
          /\ calls'[m]["MissileApproaching"] > calls[m]["MissileApproaching"] =>
                \E u \in Units :
                    /\ cpc[u] = "notify"
                    /\ cmd[u].alive_soldiers[ci[u]].addr = m
                    /\ \A v \in Units : cpc[v] \notin {"status", "round_end"}
          /\ calls'[m]["RoundStatus"] > calls[m]["RoundStatus"] =>
                \E u \in Units :
                    /\ cpc[u] = "status"
                    /\ cmd[u].alive_soldiers[ci[u]].addr = m
                    /\ \A v \in Units : cpc[v] \notin {"notify", "sleep"}

\* C18: in a round the commander shelters, then every soldier of its roster
\* receives one MissileApproaching, then, all of them notified, every one
\* receives one RoundStatus in the order of the roster, and only then is the
\* next missile spawned.
C18_RoundStepsInOrder ==
    /\ [](C18_RoundInOrder /\ C18_NotifyThenStatus)
    /\ [][C18_NoOverlap]_vars

\* the second round of the initial commander, both soldiers still on the
\* roster, the first asked for its status and the second not yet
C18_Witness ==
    /\ cpc[0] = "status"
    /\ ci[0] = 2
    /\ Len(cmd[0].alive_soldiers) = 2
    /\ missiles = 2
    /\ calls[1]["RoundStatus"] = 2
    /\ calls[2]["RoundStatus"] = 1

\* ------------------------------------------------------------------------
\* Properties of the game: the roster after RoundStatus

\* the soldiers of a roster that are not hit, in the order of the roster,
\* each with the position the soldier has
NotHitWithPositions(alive_soldiers) ==
    LET NotHit(e) == ~soldier[e.addr].was_hit
        kept == SelectSeq(alive_soldiers, NotHit)
    IN  [i \in 1..Len(kept) |->
           [kept[i] EXCEPT !.position = soldier[kept[i].addr].position]]

\* the step that ends send_round_status_message leaves that roster
C19_RosterFiltered ==
    \A u \in Units :
        (cpc[u] = "round_end" /\ cpc'[u] = "loop") =>
            cmd'[u].alive_soldiers = NotHitWithPositions(cmd[u].alive_soldiers)

\* between two rounds no entry of a commander's roster is a hit soldier, and
\* every entry has its soldier's position
C19_RosterIsAlive ==
    \A u \in Units :
        cpc[u] \in {"loop", "game_over", "new_commander"} =>
            \A i \in 1..Len(cmd[u].alive_soldiers) :
                LET e == cmd[u].alive_soldiers[i] IN
                /\ ~soldier[e.addr].was_hit
                /\ e.position = soldier[e.addr].position

\* C19: after the RoundStatus calls of a round the roster is the roster of
\* before without the soldiers that reported a hit, in the same order, each
\* entry with the position its soldier reported, which is the soldier's.
C19_RosterAfterStatus == [](C19_RosterIsAlive) /\ [][C19_RosterFiltered]_vars

\* after a round one soldier of two is left on the roster, at the cell it
\* moved to
C19_Witness ==
    \E u \in Units :
        /\ cpc[u] = "loop"
        /\ cmd[u].missile_type # 0
        /\ Len(cmd[u].alive_soldiers) = 1
        /\ to_delete[u] # {}
        /\ cmd[u].alive_soldiers[1].position \notin StartCells(cmd[u].board_size)

\* ------------------------------------------------------------------------
\* Properties of the game: the start of a promoted soldier's loop

\* C20: the main thread of a promoted soldier never fails on a commander that
\* is missing or half built, and it is in run_game_loop only when the
\* NewCommander handler has built the commander, assigned its roster and
\* position, and returned.
C20_LoopAfterReconstruction ==
    \A m \in Soldiers :
        /\ main_pc[m] # "crashed"
        /\ main_pc[m] \in {"run_game_loop", "commander"} =>
              /\ cmd[m].exists
              /\ cmd[m].has_roster
              /\ cmd[m].has_position
              /\ handler_pc[m] = "returned"

\* ------------------------------------------------------------------------
\* Properties of the game: the game time

\* C21: a commander that has spawned a missile and is notifying its roster,
\* or has notified it and sleeps, began that round before the game time was
\* reached.
C21_NoRoundAtGameTime ==
    \A u \in Units :
        cpc[u] \in {"notify", "sleep"} => cmd[u].cur_time < cmd[u].game_time

\* ------------------------------------------------------------------------
\* Properties of the game: termination

\* a living commander has sent GameOver to its roster and returned, or a
\* commander was eliminated with nobody left and returned
EndedProperly ==
    \E u \in Units :
        /\ cpc[u] = "done"
        /\ cmd[u].is_alive \/ EliminatedAlone(u)

\* the soldier's server is stopped and its main thread has left the serve
\* loop for good: the process has ended, or it was promoted and its
\* run_game_loop has returned
StoppedServing(m) ==
    /\ server[m] = "stopped"
    /\ \/ main_pc[m] = "exit"
       \/ main_pc[m] = "commander" /\ cpc[m] = "done"

Ended ==
    /\ EndedProperly
    /\ Drivers = {}
    /\ \A m \in Soldiers : StoppedServing(m)

\* C22: with every soldier reachable and every thread scheduled, the game
\* ends: from some point on a living commander has sent GameOver or a
\* commander was eliminated with an empty roster, no unit drives a round and
\* every soldier has stopped serving.
C22_EventuallyEnds == <>[]Ended

====
